---------------------------- MODULE Spec2Model ----------------------------
(***************************************************************************)
(* Model of the stock fair-value estimator:                                *)
(*   src/ev_fair_value_app.py  get_fair_value, ev_valuation, the batch     *)
(*                             loop over the uploaded tickers and the      *)
(*                             session cache (output_df, csv_data);        *)
(*   src/backtest_utils.py     backtest_fair_value.                        *)
(*                                                                         *)
(* Numbers.  Python floats are modelled by exact rationals [n, d] with     *)
(* d > 0 in lowest terms, so every comparison the code makes is decided    *)
(* on the exact value (binary rounding error of the floats is not          *)
(* modelled).  round(x, 2) is modelled as round-half-even to a hundredth.  *)
(* Python values are tagged records: None, a number, the "N/A" string.     *)
(* Market capitalisation is counted in millions so that the thresholds     *)
(* fit 32-bit integers.                                                    *)
(***************************************************************************)
EXTENDS Integers, Sequences, FiniteSets, TLC

VARIABLES
    val,        \* one call of ev_valuation: its inputs, position and result
    bt,         \* one call of backtest_fair_value: inputs, position, result
    session,    \* st.session_state: output_df and csv_data
    run,        \* the script run in progress: position, tickers, loop index, results
    screen      \* what the latest run has rendered: notice, table, download

vars == <<val, bt, session, run, screen>>

-----------------------------------------------------------------------------
(* Bounds of the model *)

\* longest 3-year price history handed to ev_valuation
MaxBars == 2
\* longest price history handed to backtest_fair_value
MaxBtBars == 2
\* largest lookback (the `years` argument) of backtest_fair_value
MaxYears == 3
\* longest uploaded ticker list
MaxTickers == 2

-----------------------------------------------------------------------------
(* Python values *)

None == [kind |-> "None"]
NA == [kind |-> "str", s |-> "N/A"]
Str(s) == [kind |-> "str", s |-> s]
Raised == [kind |-> "raise"]
\* pd.DataFrame(rows)
Frame(rows) == [kind |-> "frame", rows |-> rows]

Abs(i) == IF i < 0 THEN -i ELSE i

RECURSIVE Gcd(_, _)
Gcd(a, b) == IF b = 0 THEN a ELSE Gcd(b, a % b)

\* the rational n/d (d # 0) in lowest terms with a positive denominator
Q(n, d) ==
    LET g == Gcd(Abs(n), Abs(d))
        s == IF d < 0 THEN -1 ELSE 1
    IN  [kind |-> "num", n |-> s * (n \div g), d |-> s * (d \div g)]

Int2Q(i) == Q(i, 1)
IsNum(x) == x.kind = "num"

QAdd(a, b) == Q(a.n * b.d + b.n * a.d, a.d * b.d)
QSub(a, b) == Q(a.n * b.d - b.n * a.d, a.d * b.d)
QMul(a, b) == Q(a.n * b.n, a.d * b.d)
\* a / b; the caller has excluded b = 0 (ZeroDivisionError)
QDiv(a, b) == Q(a.n * b.d, a.d * b.n)
QLt(a, b) == a.n * b.d < b.n * a.d
QLe(a, b) == a.n * b.d <= b.n * a.d
QGt(a, b) == QLt(b, a)
QGe(a, b) == QLe(b, a)
QIsZero(a) == a.n = 0

\* Python truthiness of None or a number: `if x`, `a and b`
Truthy(x) == IsNum(x) /\ ~QIsZero(x)

\* round(x, 2): the nearest hundredth, a tie going to the even one
Round2(x) ==
    LET ip == x.n \div x.d
        r  == x.n - ip * x.d
        h  == r * 100
        fl == h \div x.d
        r2 == h - fl * x.d
        c  == IF 2 * r2 < x.d THEN fl
              ELSE IF 2 * r2 > x.d THEN fl + 1
              ELSE IF fl % 2 = 0 THEN fl ELSE fl + 1
    IN  Q(ip * 100 + c, 100)

RECURSIVE Pow(_, _)
Pow(b, e) == IF e = 0 THEN 1 ELSE b * Pow(b, e - 1)

RECURSIVE SeqMax(_, _)
SeqMax(s, f) ==
    IF Len(s) = 1 THEN s[1][f]
    ELSE LET m == SeqMax(Tail(s), f)
         IN  IF QGt(s[1][f], m) THEN s[1][f] ELSE m

RECURSIVE SeqMin(_, _)
SeqMin(s, f) ==
    IF Len(s) = 1 THEN s[1][f]
    ELSE LET m == SeqMin(Tail(s), f)
         IN  IF QLt(s[1][f], m) THEN s[1][f] ELSE m

RECURSIVE SeqSum(_, _)
SeqSum(s, f) == IF s = << >> THEN Int2Q(0) ELSE QAdd(s[1][f], SeqSum(Tail(s), f))

\* str.endswith
EndsWith(t, suffix) ==
    /\ Len(t) >= Len(suffix)
    /\ SubSeq(t, Len(t) - Len(suffix) + 1, Len(t)) = suffix

\* sequences over S of length at most n
SeqsUpTo(S, n) == UNION {[1..k -> S] : k \in 0..n}

-----------------------------------------------------------------------------
(* get_fair_value *)

\* growth_rate = 0.10
growth_rate == Q(1, 10)

\* the tuple `fair_price, current_price` that get_fair_value returns
Pair(fair_price, current_price) ==
    [kind |-> "pair", fair_price |-> fair_price, current_price |-> current_price]

\* the body of the try block of get_fair_value: the pair, or Raised when a
\* statement of the block raises.  src.info is what stock.info returns,
\* unless the fetch raises (src.infoRaises).
get_fair_value_try(src) ==
    IF src.infoRaises THEN Raised
    ELSE
      LET ev == src.info.enterpriseValue
          ebitda == src.info.ebitda
          shares == src.info.sharesOutstanding
          current_price == src.info.currentPrice
      IN  IF ~(Truthy(ev) /\ Truthy(ebitda) /\ Truthy(shares)) THEN Pair(None, None)
          ELSE IF ~IsNum(ev) \/ ~IsNum(ebitda) \/ QIsZero(ebitda) THEN Raised
          ELSE
            LET ev_ebitda_ratio == QDiv(ev, ebitda)
                projected_ebitda == QMul(ebitda, QAdd(Int2Q(1), growth_rate))
                projected_ev == QMul(projected_ebitda, ev_ebitda_ratio)
            IN  IF ~IsNum(shares) \/ QIsZero(shares) THEN Raised
                ELSE LET fair_price == QDiv(projected_ev, shares)
                     IN  Pair(fair_price, current_price)

\* a plausible slip: no except clause, the exception reaches the caller
get_fair_value_uncaught(src) == get_fair_value_try(src)

\* a plausible slip: the presence test leaves enterpriseValue out
get_fair_value_ev_unchecked(src) ==
    IF src.infoRaises THEN Pair(None, None)
    ELSE
      LET ev == src.info.enterpriseValue
          ebitda == src.info.ebitda
          shares == src.info.sharesOutstanding
          current_price == src.info.currentPrice
      IN  IF ~(Truthy(ebitda) /\ Truthy(shares)) \/ ~IsNum(ev) THEN Pair(None, None)
          ELSE Pair(QDiv(QMul(QMul(ebitda, QAdd(Int2Q(1), growth_rate)),
                              QDiv(ev, ebitda)), shares),
                    current_price)

\* get_fair_value(ticker): `except: return None, None`
get_fair_value(src) ==
    LET r == get_fair_value_try(src)
    IN  IF r = Raised THEN Pair(None, None) ELSE r

-----------------------------------------------------------------------------
(* ev_valuation *)

\* a key the info dictionary does not hold
Missing == [kind |-> "missing"]

\* dict.get(key, default)
Get(v, default) == IF v = Missing THEN default ELSE v

\* market capitalisation thresholds, in millions
MegaCap == 200000
LargeCap == 10000
MidCap == 2000

CapType(market_cap) ==
    IF QGe(market_cap, Int2Q(MegaCap)) THEN "Mega"
    ELSE IF QGe(market_cap, Int2Q(LargeCap)) THEN "Large"
    ELSE IF QGe(market_cap, Int2Q(MidCap)) THEN "Mid"
    ELSE "Small"

Market(ticker) == IF EndsWith(ticker, <<".", "N", "S">>) THEN "India" ELSE "USA"

\* ((fair_price - current_price) / current_price) * 100, current_price # 0
UndervalPct(fair_price, current_price) ==
    QMul(QDiv(QSub(fair_price, current_price), current_price), Int2Q(100))

\* a plausible slip: the negative-fair-value test and the 5% floor are left out
BandWithoutOverValued(fair_price, underval_pct) ==
    IF QGt(underval_pct, Int2Q(30)) THEN "Deep Discount"
    ELSE IF QGt(underval_pct, Int2Q(20)) THEN "High Value"
    ELSE IF QGt(underval_pct, Int2Q(18)) THEN "Undervalued"
    ELSE "Fair/Premium"

\* a plausible slip: the thresholds are taken inclusive
BandInclusive(fair_price, underval_pct) ==
    IF QLt(fair_price, Int2Q(0)) \/ QLe(underval_pct, Int2Q(5)) THEN "Over Valued"
    ELSE IF QGe(underval_pct, Int2Q(30)) THEN "Deep Discount"
    ELSE IF QGe(underval_pct, Int2Q(20)) THEN "High Value"
    ELSE IF QGe(underval_pct, Int2Q(18)) THEN "Undervalued"
    ELSE "Fair/Premium"

\* the classification logic
Band(fair_price, underval_pct) ==
    IF QLt(fair_price, Int2Q(0)) \/ QLt(underval_pct, Int2Q(5)) THEN "Over Valued"
    ELSE IF QGt(underval_pct, Int2Q(30)) THEN "Deep Discount"
    ELSE IF QGt(underval_pct, Int2Q(20)) THEN "High Value"
    ELSE IF QGt(underval_pct, Int2Q(18)) THEN "Undervalued"
    ELSE "Fair/Premium"

Signal(fair_price, current_price) ==
    IF QGt(fair_price, current_price) THEN "Buy" ELSE "Hold/Sell"

\* hist["High"].max() if not hist.empty else None
High3Y(hist) == IF hist # << >> THEN SeqMax(hist, "High") ELSE None
\* hist["Low"].min() if not hist.empty else None
Low3Y(hist) == IF hist # << >> THEN SeqMin(hist, "Low") ELSE None

\* round(x * factor, 2) if x else "N/A"
LevelOrNA(x, factor) == IF Truthy(x) THEN Round2(QMul(x, factor)) ELSE NA

\* the body of the try block of ev_valuation: the record, None, or Raised
\* when a statement of the block raises
ev_valuation_try(ticker, src) ==
    LET gfv == get_fair_value(src)
    IN  IF gfv = Raised THEN Raised
        ELSE IF gfv.fair_price = None \/ gfv.current_price = None THEN None
        ELSE IF src.info2Raises \/ src.histRaises THEN Raised
        ELSE
          LET fair_price == gfv.fair_price
              current_price == gfv.current_price
              hist == src.hist
              company_name == Get(src.info2.shortName, NA)
              market_cap == Get(src.info2.marketCap, Int2Q(0))
              industry == Get(src.info2.industry, NA)
          IN  IF ~IsNum(market_cap) THEN Raised             \* None >= int
              ELSE IF QIsZero(current_price) THEN Raised    \* division by zero
              ELSE
                LET cap_type == CapType(market_cap)
                    market == Market(ticker)
                    underval_pct == UndervalPct(fair_price, current_price)
                    band == Band(fair_price, underval_pct)
                    high_3y == High3Y(hist)
                    low_3y == Low3Y(hist)
                    entry_price == LevelOrNA(low_3y, Q(105, 100))
                    exit_price == LevelOrNA(high_3y, Q(95, 100))
                IN  [kind |-> "row",
                     Symbol |-> ticker,
                     Name |-> company_name,
                     FairValue |-> Round2(fair_price),
                     CurrentPrice |-> Round2(current_price),
                     UndervaluedPct |-> Round2(underval_pct),
                     ValuationBand |-> band,
                     Market |-> market,
                     CapSize |-> cap_type,
                     Industry |-> industry,
                     High3Y |-> LevelOrNA(high_3y, Int2Q(1)),
                     Low3Y |-> LevelOrNA(low_3y, Int2Q(1)),
                     EntryPrice |-> entry_price,
                     ExitPrice |-> exit_price,
                     Signal |-> Signal(fair_price, current_price)]

\* a plausible slip: no except clause, the exception reaches the caller
ev_valuation_uncaught(ticker, src) == ev_valuation_try(ticker, src)

\* ev_valuation(ticker): `except Exception: return None`
ev_valuation(ticker, src) ==
    LET r == ev_valuation_try(ticker, src)
    IN  IF r = Raised THEN None ELSE r

-----------------------------------------------------------------------------
(* One call of ev_valuation on data drawn from the data source *)

AAPL == <<"A", "A", "P", "L">>
INFY_NS == <<"I", "N", "F", "Y", ".", "N", "S">>
Tickers == {AAPL, INFY_NS}

NumOrNone(S) == {None} \cup {Int2Q(i) : i \in S}

\* With sharesOutstanding = 11 an enterprise value of 10 * f gives the fair
\* price f, so against a current price of 100 these give an undervaluation
\* of -10, 0, 2, 4.9, 5, 5.1, 18, 18.1, 20, 20.1, 30 and 30.1 percent.
EnterpriseValues ==
    NumOrNone({-500, 0, 900, 1000, 1020, 1049, 1050, 1051,
               1180, 1181, 1200, 1201, 1300, 1301})
Ebitdas == NumOrNone({-3, 0, 7})
SharesOutstanding == NumOrNone({-11, 0, 11})
CurrentPrices == NumOrNone({-20, 0, 100})

Infos ==
    [enterpriseValue : EnterpriseValues, ebitda : Ebitdas,
     sharesOutstanding : SharesOutstanding, currentPrice : CurrentPrices]

NoInfo ==
    [enterpriseValue |-> None, ebitda |-> None,
     sharesOutstanding |-> None, currentPrice |-> None]

Info2s ==
    {[shortName |-> Missing, marketCap |-> Missing, industry |-> Missing]}
    \cup [shortName : {Str("Acme")}, industry : {Str("Autos")},
          marketCap : {None, Int2Q(MidCap), Int2Q(MegaCap)}]

NoInfo2 == [shortName |-> Missing, marketCap |-> Missing, industry |-> Missing]

Bar(high, low) == [High |-> Int2Q(high), Low |-> Int2Q(low)]
Bars == {Bar(0, 0), Bar(20, 10), Bar(30, 0)}
Hists == SeqsUpTo(Bars, MaxBars)

\* what the data source answers for one ticker: the first stock.info, the
\* second stock.info and stock.history(period="3y"), each of which may raise
Source(ir, i, i2r, i2, hr, h) ==
    [infoRaises |-> ir, info |-> i, info2Raises |-> i2r, info2 |-> i2,
     histRaises |-> hr, hist |-> h]

ValSources ==
    {Source(TRUE, NoInfo, FALSE, NoInfo2, FALSE, << >>)}
    \cup {Source(FALSE, i, TRUE, NoInfo2, FALSE, << >>) : i \in Infos}
    \cup {Source(FALSE, i, FALSE, i2, TRUE, << >>) : i \in Infos, i2 \in Info2s}
    \cup {Source(FALSE, i, FALSE, i2, FALSE, h) : i \in Infos, i2 \in Info2s, h \in Hists}

ValIdle == [pc |-> "idle"]
BtIdle == [pc |-> "idle"]
RunIdle == [pc |-> "idle", tickers |-> << >>, idx |-> 1, results |-> << >>,
            attempts |-> << >>]
NoSession == [output_df |-> None, csv_data |-> None]
NoScreen == [notice |-> "initial", table |-> None, download |-> None]

InitVal ==
    /\ val \in {[pc |-> "call", ticker |-> t, src |-> s,
                 gfv |-> Pair(None, None), row |-> None] : t \in Tickers, s \in ValSources}
    /\ bt = BtIdle
    /\ session = NoSession
    /\ run = RunIdle
    /\ screen = NoScreen

\* the call returns
ValCall ==
    /\ val.pc = "call"
    /\ val' = [val EXCEPT !.pc = "done",
                          !.gfv = get_fair_value(val.src),
                          !.row = ev_valuation(val.ticker, val.src)]
    /\ UNCHANGED <<bt, session, run, screen>>

NextVal == ValCall

SpecVal == InitVal /\ [][NextVal]_vars

-----------------------------------------------------------------------------
(* Properties of get_fair_value and ev_valuation, checked under SpecVal *)

ValDone == val.pc = "done"
\* the call returned a Valuation Result
Emitted == ValDone /\ val.row.kind = "row"
\* get_fair_value returned a pair of numbers
Priced ==
    /\ ValDone
    /\ val.gfv.kind = "pair"
    /\ IsNum(val.gfv.fair_price)
    /\ IsNum(val.gfv.current_price)
FairPrice == val.gfv.fair_price
CurrentPrice == val.gfv.current_price
\* the undervaluation percentage, as 100 * fair / current - 100
Underval == QSub(QDiv(QMul(Int2Q(100), FairPrice), CurrentPrice), Int2Q(100))
Between(lo, x, hi) == QLe(Int2Q(lo), x) /\ QLe(x, Int2Q(hi))

\* C1: every emitted record carries exactly the band of the first matching
\* rule: Over Valued when the fair price is negative or underval% < 5, else
\* Deep Discount when underval% > 30, else High Value when > 20, else
\* Undervalued when > 18, else Fair/Premium.  The thresholds are strict:
\* exactly 5 and exactly 18 are Fair/Premium, exactly 20 is Undervalued and
\* exactly 30 is High Value.
C1_BandByFirstMatch ==
    Emitted =>
      LET b == val.row.ValuationBand
          neg == QLt(FairPrice, Int2Q(0))
          u == Underval
      IN  /\ (b = "Over Valued") <=> (neg \/ QLt(u, Int2Q(5)))
          /\ (b = "Deep Discount") <=> (~neg /\ QGt(u, Int2Q(30)))
          /\ (b = "High Value") <=> (~neg /\ QGt(u, Int2Q(20)) /\ QLe(u, Int2Q(30)))
          /\ (b = "Undervalued") <=> (~neg /\ QGt(u, Int2Q(18)) /\ QLe(u, Int2Q(20)))
          /\ (b = "Fair/Premium") <=> (~neg /\ Between(5, u, 18))
          /\ (~neg /\ u = Int2Q(5)) => b = "Fair/Premium"
          /\ (~neg /\ u = Int2Q(18)) => b = "Fair/Premium"
          /\ (~neg /\ u = Int2Q(20)) => b = "Undervalued"
          /\ (~neg /\ u = Int2Q(30)) => b = "High Value"

\* a record whose undervaluation is exactly 20 percent
C1_Witness ==
    Emitted /\ Underval = Int2Q(20) /\ val.row.ValuationBand = "Undervalued"

\* C3: get_fair_value returns an absent fair price, and raises nothing, when
\* enterpriseValue, ebitda or sharesOutstanding is absent, when ebitda is
\* zero and when the fetch raises; a fair price is returned only when all
\* three are present.
C3_AbsentFundamentals ==
    ValDone =>
      LET i == val.src.info
          absent == \/ i.enterpriseValue = None
                    \/ i.ebitda = None
                    \/ i.sharesOutstanding = None
      IN  /\ val.gfv.kind = "pair"
          /\ (val.src.infoRaises \/ absent \/ i.ebitda = Int2Q(0))
                => val.gfv = Pair(None, None)
          /\ (val.gfv.kind = "pair" /\ val.gfv.fair_price # None)
                => /\ ~val.src.infoRaises
                   /\ IsNum(i.enterpriseValue)
                   /\ IsNum(i.ebitda)
                   /\ IsNum(i.sharesOutstanding)

\* the fetch raised and the call returned the absent pair
C3_Witness ==
    ValDone /\ val.src.infoRaises /\ val.gfv = Pair(None, None)

\* C4: ev_valuation returns None, and raises nothing, when the fair price is
\* absent, the current price is absent or the current price is zero; it
\* returns a record only when both prices are present and the current price
\* is not zero.
C4_AbsentPrices ==
    ValDone =>
      /\ val.row # Raised
      /\ val.gfv.kind = "pair" =>
           /\ ( \/ val.gfv.fair_price = None
                \/ val.gfv.current_price = None
                \/ val.gfv.current_price = Int2Q(0) ) => val.row = None
           /\ val.row.kind = "row" =>
                /\ IsNum(val.gfv.fair_price)
                /\ IsNum(val.gfv.current_price)
                /\ ~QIsZero(val.gfv.current_price)

\* a fair price with a current price of zero, every fetch succeeding
C4_Witness ==
    /\ Priced
    /\ QIsZero(CurrentPrice)
    /\ ~val.src.info2Raises /\ ~val.src.histRaises
    /\ IsNum(Get(val.src.info2.marketCap, Int2Q(0)))
    /\ val.row = None

\* C7 as stated: in every emitted record the fair price and the current
\* price are both positive.
C7_BothPositive ==
    Emitted =>
      /\ QGt(val.row.FairValue, Int2Q(0))
      /\ QGt(val.row.CurrentPrice, Int2Q(0))

\* C7 as amended: in every emitted record the fair price and the current
\* price are both numbers other than zero; the fair price is positive exactly
\* when enterpriseValue and sharesOutstanding have the same sign, whatever
\* the sign of ebitda, and the current price is the data source's, of
\* either sign.
C7_BothNonzero ==
    Emitted =>
      LET i == val.src.info
      IN  /\ Priced
          /\ ~QIsZero(FairPrice)
          /\ ~QIsZero(CurrentPrice)
          /\ CurrentPrice = i.currentPrice
          /\ QGt(FairPrice, Int2Q(0))
               <=> QGt(QMul(i.enterpriseValue, i.sharesOutstanding), Int2Q(0))

\* a record with a negative fair price, from a negative enterprise value
C7_Witness ==
    /\ Emitted
    /\ QLt(FairPrice, Int2Q(0))
    /\ QLt(val.src.info.enterpriseValue, Int2Q(0))
    /\ QLt(val.src.info.ebitda, Int2Q(0))

\* C8: Entry Price and Exit Price are "N/A" exactly when the 3-year history
\* is empty; for a history that is not empty Entry Price is min(low) * 1.05,
\* Exit Price is max(high) * 0.95, to 2 decimals, and 3Y Low and 3Y High are
\* the least low and the greatest high.
C8_LevelsFromHistory ==
    Emitted =>
      LET hist == val.src.hist
          r == val.row
      IN  /\ (r.EntryPrice = NA) <=> (hist = << >>)
          /\ (r.ExitPrice = NA) <=> (hist = << >>)
          /\ hist # << >> =>
               /\ r.EntryPrice = Round2(QMul(SeqMin(hist, "Low"), Q(105, 100)))
               /\ r.ExitPrice = Round2(QMul(SeqMax(hist, "High"), Q(95, 100)))
               /\ r.Low3Y = Round2(SeqMin(hist, "Low"))
               /\ r.High3Y = Round2(SeqMax(hist, "High"))

\* C9: a record whose Signal is Hold/Sell has the band Over Valued, so a
\* record of any other band has the Signal Buy.
C9_HoldSellIsOverValued ==
    Emitted =>
      /\ val.row.Signal = "Hold/Sell" => val.row.ValuationBand = "Over Valued"
      /\ val.row.ValuationBand # "Over Valued" => val.row.Signal = "Buy"

\* a Hold/Sell record with a negative current price: the fair price is
\* below it, and the undervaluation percentage is above 30
C9_Witness ==
    /\ Emitted
    /\ val.row.Signal = "Hold/Sell"
    /\ QLt(CurrentPrice, Int2Q(0))
    /\ QGt(Underval, Int2Q(30))

\* the converse fails: an Over Valued record with the Signal Buy
C9_BuyOverValued ==
    /\ Emitted
    /\ val.row.ValuationBand = "Over Valued"
    /\ val.row.Signal = "Buy"
    /\ QGt(Underval, Int2Q(0)) /\ QLt(Underval, Int2Q(5))

-----------------------------------------------------------------------------
(* backtest_fair_value *)

IsLeap(y) == (y % 4 = 0 /\ y % 100 # 0) \/ y % 400 = 0

\* datetime.replace(year=y) raises ValueError when the date does not exist
\* in year y: y < 1, or 29 February moved into a year that is not a leap year
ReplaceYearRaises(date, y) ==
    \/ y < 1
    \/ (date.month = 2 /\ date.day = 29 /\ ~IsLeap(y))

\* hist[hist.index.year == year]
YearData(hist, year) == SelectSeq(hist, LAMBDA b : b.Year = year)

\* fair_value_current / ((1.10) ** reverse_years)
SimulatedFv(fair_value_current, reverse_years) ==
    QDiv(fair_value_current, Q(Pow(11, reverse_years), Pow(10, reverse_years)))

\* a plausible slip: the range test is made strict
ConvergedStrict(low_price, simulated_fv, high_price) ==
    QLt(low_price, simulated_fv) /\ QLt(simulated_fv, high_price)

\* a plausible slip: the range test is made on the rounded figures of the row
ConvergedRounded(low_price, simulated_fv, high_price) ==
    /\ QLe(Round2(low_price), Round2(simulated_fv))
    /\ QLe(Round2(simulated_fv), Round2(high_price))

\* low_price <= simulated_fv <= high_price
Converged(low_price, simulated_fv, high_price) ==
    QLe(low_price, simulated_fv) /\ QLe(simulated_fv, high_price)

\* numpy's result of a float division by zero (inf or nan, nothing raised)
NonFinite == [kind |-> "nonfinite"]

\* the row of one year whose year_data is not empty
BacktestRow(year_data, year, end_year, fair_value_current) ==
    LET avg_price == QDiv(SeqSum(year_data, "Close"), Int2Q(Len(year_data)))
        high_price == SeqMax(year_data, "High")
        low_price == SeqMin(year_data, "Low")
        reverse_years == end_year - year
        simulated_fv == SimulatedFv(fair_value_current, reverse_years)
        deviation_pct ==
            IF QIsZero(avg_price) THEN NonFinite
            ELSE Round2(QMul(QDiv(QSub(simulated_fv, avg_price), avg_price), Int2Q(100)))
        converged == Converged(low_price, simulated_fv, high_price)
    IN  [Year |-> year,
         SimulatedFairValue |-> Round2(simulated_fv),
         AvgMarketPrice |-> Round2(avg_price),
         PriceHigh |-> Round2(high_price),
         PriceLow |-> Round2(low_price),
         DeviationPct |-> deviation_pct,
         Converged |-> IF converged THEN "Yes" ELSE "No"]

\* for year in range(first, end_year): the rows appended from `year` on
RECURSIVE BacktestRows(_, _, _, _)
BacktestRows(hist, year, end_year, fair_value_current) ==
    IF year >= end_year THEN << >>
    ELSE LET year_data == YearData(hist, year)
             rest == BacktestRows(hist, year + 1, end_year, fair_value_current)
         IN  IF year_data = << >> THEN rest
             ELSE <<BacktestRow(year_data, year, end_year, fair_value_current)>> \o rest

\* the body of the try block of backtest_fair_value: the DataFrame, or
\* Raised when a statement of the block raises
backtest_fair_value_try(end_date, years, fair_value_current, src) ==
    IF ReplaceYearRaises(end_date, end_date.year - years) THEN Raised
    ELSE IF src.histRaises THEN Raised
    ELSE IF src.hist = << >> \/ ~src.hasClose THEN Frame(<< >>)
    ELSE Frame(BacktestRows(src.hist, end_date.year - years, end_date.year,
                            fair_value_current))

\* backtest_fair_value(ticker, fair_value_current, years):
\* `except Exception: return pd.DataFrame()`
backtest_fair_value(end_date, years, fair_value_current, src) ==
    LET r == backtest_fair_value_try(end_date, years, fair_value_current, src)
    IN  IF r = Raised THEN Frame(<< >>) ELSE r

-----------------------------------------------------------------------------
(* One call of backtest_fair_value on a history drawn from the data source *)

Date(y, m, d) == [year |-> y, month |-> m, day |-> d]
\* datetime.now()
Nows == {Date(2027, 3, 1), Date(2028, 2, 29), Date(2028, 11, 6)}

BtYears == 2024..2028
\* the low, close and high of a bar
BtShapes ==
    {[Low |-> Int2Q(10), Close |-> Int2Q(15), High |-> Int2Q(100)],
     [Low |-> Int2Q(20), Close |-> Int2Q(30), High |-> Int2Q(40)],
     [Low |-> Int2Q(5), Close |-> Int2Q(7), High |-> Q(909, 100)]}
BtBars ==
    {[Year |-> y, Low |-> p.Low, Close |-> p.Close, High |-> p.High] :
        y \in BtYears, p \in BtShapes}
\* the data source returns the bars in date order
BtHists ==
    {h \in SeqsUpTo(BtBars, MaxBtBars) :
        \A i \in 1..Len(h), j \in 1..Len(h) : i < j => h[i].Year <= h[j].Year}
FairValues == {Int2Q(11), Int2Q(121)}

BtSources ==
    {[histRaises |-> TRUE, hasClose |-> TRUE, hist |-> << >>]}
    \cup [histRaises : {FALSE}, hasClose : BOOLEAN, hist : BtHists]

InitBt ==
    /\ bt \in {[pc |-> "call", end_date |-> n, years |-> y, fair_value_current |-> f,
                src |-> s, rows |-> << >>] :
                  n \in Nows, y \in 0..MaxYears, f \in FairValues, s \in BtSources}
    /\ val = ValIdle
    /\ session = NoSession
    /\ run = RunIdle
    /\ screen = NoScreen

\* the call returns
BtCall ==
    /\ bt.pc = "call"
    /\ bt' = [bt EXCEPT !.pc = "done",
                        !.rows = backtest_fair_value(bt.end_date, bt.years,
                                                     bt.fair_value_current,
                                                     bt.src).rows]
    /\ UNCHANGED <<val, session, run, screen>>

NextBt == BtCall

SpecBt == InitBt /\ [][NextBt]_vars

-----------------------------------------------------------------------------
(* Properties of backtest_fair_value, checked under SpecBt *)

BtDone == bt.pc = "done"
\* the calendar years of the bars of the history
BarYears == {bt.src.hist[i].Year : i \in 1..Len(bt.src.hist)}
\* the years of [currentYear - lookbackYears, currentYear) that have a bar
YearsWithBars ==
    {y \in (bt.end_date.year - bt.years)..(bt.end_date.year - 1) : y \in BarYears}
RowYears == {bt.rows[i].Year : i \in 1..Len(bt.rows)}

\* C5: for a price history (bars with a date, high, low and close) and any
\* lookbackYears, there is exactly one row for each year of
\* [currentYear - lookbackYears, currentYear) that has a bar and no other
\* row; the rows are in strictly ascending year order and there are at most
\* lookbackYears of them.
C5_OneRowPerYearWithBars ==
    (BtDone /\ ~bt.src.histRaises /\ bt.src.hasClose) =>
      /\ RowYears = YearsWithBars
      /\ Len(bt.rows) = Cardinality(YearsWithBars)
      /\ \A i \in 1..Len(bt.rows), j \in 1..Len(bt.rows) :
            i < j => bt.rows[i].Year < bt.rows[j].Year
      /\ Len(bt.rows) <= bt.years

\* the same, for the calls in which the start date can be formed
C5_ExceptLeapDay ==
    ~ReplaceYearRaises(bt.end_date, bt.end_date.year - bt.years)
        => C5_OneRowPerYearWithBars

\* the bars of the history that fall in year y
BarsOf(y) == {bt.src.hist[i] : i \in {k \in 1..Len(bt.src.hist) : bt.src.hist[k].Year = y}}
\* low <= fair_value_current / 1.10 ^ n, decided on integers
AtLeast(n, low) ==
    low.n * Pow(11, n) * bt.fair_value_current.d
        <= bt.fair_value_current.n * Pow(10, n) * low.d
\* fair_value_current / 1.10 ^ n <= high, decided on integers
AtMost(n, high) ==
    bt.fair_value_current.n * Pow(10, n) * high.d
        <= high.n * Pow(11, n) * bt.fair_value_current.d

\* C6: in every row the Converged flag is Yes if and only if the year's
\* lowest low <= simulated fair value <= the year's highest high, both
\* bounds inclusive and on the unrounded values.
C6_ConvergedInclusive ==
    BtDone =>
      \A i \in 1..Len(bt.rows) :
        LET row == bt.rows[i]
            n == bt.end_date.year - row.Year
        IN  (row.Converged = "Yes")
              <=> /\ \E b \in BarsOf(row.Year) : AtLeast(n, b.Low)
                  /\ \E b \in BarsOf(row.Year) : AtMost(n, b.High)

\* a row whose simulated fair value equals the year's low, flagged Yes
C6_Witness ==
    /\ BtDone
    /\ \E i \in 1..Len(bt.rows) :
          LET row == bt.rows[i]
              n == bt.end_date.year - row.Year
              low == SeqMin(YearData(bt.src.hist, row.Year), "Low")
          IN  /\ SimulatedFv(bt.fair_value_current, n) = low
              /\ row.Converged = "Yes"

\* a row whose simulated fair value equals the year's high, flagged Yes
C6_WitnessHigh ==
    /\ BtDone
    /\ \E i \in 1..Len(bt.rows) :
          LET row == bt.rows[i]
              n == bt.end_date.year - row.Year
              high == SeqMax(YearData(bt.src.hist, row.Year), "High")
          IN  /\ SimulatedFv(bt.fair_value_current, n) = high
              /\ row.Converged = "Yes"

-----------------------------------------------------------------------------
(* The script: upload, batch loop, session cache, display *)

Columns ==
    <<"Symbol", "Name", "Fair Value (EV)", "Current Price", "Undervalued (%)",
      "Valuation Band", "Market", "Cap Size", "Industry", "3Y High", "3Y Low",
      "Entry Price", "Exit Price", "Signal">>

CsvLine(r) ==
    <<r.Symbol, r.Name, r.FairValue, r.CurrentPrice, r.UndervaluedPct,
      r.ValuationBand, r.Market, r.CapSize, r.Industry, r.High3Y, r.Low3Y,
      r.EntryPrice, r.ExitPrice, r.Signal>>

\* output_df.to_csv(index=False).encode("utf-8"): the header line, then one
\* line of cells for each row
ToCsv(df) ==
    [kind |-> "bytes",
     header |-> Columns,
     lines |-> [i \in 1..Len(df.rows) |-> CsvLine(df.rows[i])]]

\* r goes into the rows s, sorted by Undervalued (%) descending, after the
\* rows that are not below it
RECURSIVE InsertDesc(_, _)
InsertDesc(r, s) ==
    IF s = << >> THEN <<r>>
    ELSE IF QGe(s[1].UndervaluedPct, r.UndervaluedPct) THEN <<s[1]>> \o InsertDesc(r, Tail(s))
    ELSE <<r>> \o s

RECURSIVE SortRows(_)
SortRows(s) ==
    IF s = << >> THEN << >>
    ELSE InsertDesc(s[Len(s)], SortRows(SubSeq(s, 1, Len(s) - 1)))

\* df.sort_values(by="Undervalued (%)", ascending=False): a new frame
SortValues(df) == Frame(SortRows(df.rows))

\* a plausible slip: the table is stored without its export
StoreTableOnly(sess, results) ==
    IF results # << >>
    THEN [sess EXCEPT !.output_df = Frame(results)]
    ELSE sess

\* a plausible slip: the table is stored whether or not the batch has a result
StoreAlways(sess, results) ==
    [output_df |-> Frame(results), csv_data |-> ToCsv(Frame(results))]

\* the session state after `if results: ... else: st.warning(...)`
Store(sess, results) ==
    IF results # << >>
    THEN [output_df |-> Frame(results), csv_data |-> ToCsv(Frame(results))]
    ELSE sess

\* the display section: what the run renders from the session state
Render(sess, notice) ==
    IF sess.output_df # None
    THEN [notice |-> notice, table |-> SortValues(sess.output_df),
          download |-> sess.csv_data]
    ELSE [notice |-> notice, table |-> None, download |-> None]

\* an exception that nothing catches ends the script run
Traceback == [notice |-> "exception", table |-> None, download |-> None]

\* st.success("Processing ... tickers..."): all the run shows during the loop
Processing == [notice |-> "processing", table |-> None, download |-> None]

\* `if row:` - None is false, a dictionary with keys is true
RowTruthy(row) == row.kind = "row"

GoodInfo(ev) ==
    [enterpriseValue |-> Int2Q(ev), ebitda |-> Int2Q(7),
     sharesOutstanding |-> Int2Q(11), currentPrice |-> Int2Q(100)]
AcmeInfo2 ==
    [shortName |-> Str("Acme"), marketCap |-> Int2Q(MegaCap), industry |-> Str("Autos")]

\* the data source's answers in the batch: the fetch raises, a fundamental
\* is missing, the current price is zero, and two tickers that value
AppSources ==
    {Source(TRUE, NoInfo, FALSE, NoInfo2, FALSE, << >>),
     Source(FALSE, [GoodInfo(1200) EXCEPT !.ebitda = None], FALSE, AcmeInfo2, FALSE,
            <<Bar(20, 10)>>),
     Source(FALSE, [GoodInfo(1200) EXCEPT !.currentPrice = Int2Q(0)], FALSE, AcmeInfo2,
            FALSE, <<Bar(20, 10)>>),
     Source(FALSE, GoodInfo(1200), FALSE, AcmeInfo2, FALSE, <<Bar(20, 10)>>),
     Source(FALSE, GoodInfo(1301), FALSE, AcmeInfo2, FALSE, << >>)}

\* the Symbol column of an uploaded file
TickerLists == SeqsUpTo(Tickers, MaxTickers)

Init ==
    /\ session = NoSession
    /\ run = RunIdle
    /\ screen = NoScreen
    /\ val = ValIdle
    /\ bt = BtIdle

NoRunInProgress == run.pc # "loop"

\* a run with no uploaded file
RunNoUpload ==
    /\ NoRunInProgress
    /\ run' = RunIdle
    /\ screen' = Render(session, "no upload")
    /\ UNCHANGED <<session, val, bt>>

\* a run in which pd.read_csv raises
RunUnreadable ==
    /\ NoRunInProgress
    /\ run' = RunIdle
    /\ screen' = Traceback
    /\ UNCHANGED <<session, val, bt>>

\* a run on a file that has no Symbol column
RunNoSymbol ==
    /\ NoRunInProgress
    /\ run' = RunIdle
    /\ screen' = Render(session, "error")
    /\ UNCHANGED <<session, val, bt>>

\* a run on a file with a Symbol column reaches the loop
RunUpload ==
    /\ NoRunInProgress
    /\ \E tickers \in TickerLists :
          run' = [pc |-> "loop", tickers |-> tickers, idx |-> 1,
                  results |-> << >>, attempts |-> << >>]
    /\ screen' = Processing
    /\ UNCHANGED <<session, val, bt>>

\* one iteration of `for ticker in df["Symbol"]`
LoopStep ==
    /\ run.pc = "loop"
    /\ run.idx <= Len(run.tickers)
    /\ \E src \in AppSources :
          LET ticker == run.tickers[run.idx]
              row == ev_valuation(ticker, src)
              attempt == [ticker |-> ticker, src |-> src]
          IN  IF row = Raised
              THEN /\ run' = [run EXCEPT !.pc = "aborted",
                                         !.attempts = Append(@, attempt)]
                   /\ screen' = Traceback
              ELSE /\ run' = [run EXCEPT
                                !.idx = @ + 1,
                                !.attempts = Append(@, attempt),
                                !.results = IF RowTruthy(row) THEN Append(@, row) ELSE @]
                   /\ UNCHANGED screen
    /\ UNCHANGED <<session, val, bt>>

\* the loop is exhausted: store or warn, then display
Finish ==
    /\ run.pc = "loop"
    /\ run.idx > Len(run.tickers)
    /\ session' = Store(session, run.results)
    /\ screen' = Render(session', IF run.results # << >> THEN "success" ELSE "warning")
    /\ run' = [run EXCEPT !.pc = "done"]
    /\ UNCHANGED <<val, bt>>

Next ==
    \/ RunNoUpload
    \/ RunUnreadable
    \/ RunNoSymbol
    \/ RunUpload
    \/ LoopStep
    \/ Finish

Spec == Init /\ [][Next]_vars

-----------------------------------------------------------------------------
(* Properties of the batch loop and the session cache, checked under Spec *)

\* the records of the attempts whose valuation gave one, in order
RECURSIVE Successes(_)
Successes(attempts) ==
    IF attempts = << >> THEN << >>
    ELSE LET row == ev_valuation(attempts[1].ticker, attempts[1].src)
         IN  (IF row.kind = "row" THEN <<row>> ELSE << >>) \o Successes(Tail(attempts))

\* C2: no failure on one ticker aborts the batch: the tickers are attempted
\* once each, in input order, and the result list holds exactly the records
\* of the tickers whose valuation succeeded, in input order; when the loop
\* ends every ticker of the list has been attempted.
C2_BatchNeverAborts ==
    /\ run.pc # "aborted"
    /\ run.pc \in {"loop", "done"} =>
         /\ Len(run.attempts) = run.idx - 1
         /\ Len(run.attempts) <= Len(run.tickers)
         /\ \A i \in 1..Len(run.attempts) : run.attempts[i].ticker = run.tickers[i]
         /\ run.results = Successes(run.attempts)
         /\ run.pc = "done" => Len(run.attempts) = Len(run.tickers)

\* a finished batch whose first ticker's fetch raised and whose second
\* ticker was valued
C2_Witness ==
    /\ run.pc = "done"
    /\ Len(run.tickers) = 2
    /\ run.attempts[1].src.infoRaises
    /\ Len(run.results) = 1
    /\ run.results[1].Symbol = run.tickers[2]

\* output_df and csv_data are both unset, or both set with csv_data the
\* export of output_df
CachePaired ==
    \/ session.output_df = None /\ session.csv_data = None
    \/ /\ session.output_df # None
       /\ session.csv_data # None
       /\ session.csv_data = ToCsv(session.output_df)

\* the session cache changes only at the end of a batch that has a result,
\* both fields together
CacheWrittenByBatch ==
    session' # session =>
      /\ run.pc = "loop" /\ run.idx > Len(run.tickers)
      /\ run.results # << >>
      /\ session'.output_df = Frame(run.results)
      /\ session'.csv_data = ToCsv(Frame(run.results))

\* a run with no upload, without a Symbol column or with zero results leaves
\* the cache alone and displays the table stored before
CacheKeptOtherwise ==
    (screen' # screen /\ screen'.notice \in {"no upload", "error", "warning"}) =>
      /\ session' = session
      /\ screen'.table =
           IF session.output_df = None THEN None ELSE SortValues(session.output_df)
      /\ screen'.download = session.csv_data

\* C10: across any sequence of runs output_df and csv_data are both unset or
\* both set, csv_data being the export of that output_df; only a batch with
\* at least one result overwrites them, and it overwrites both; a run with
\* no upload, without a Symbol column or with zero results leaves both as
\* they were, and the table stored before is the one displayed and offered
\* for download.
C10_SessionCache ==
    /\ []CachePaired
    /\ [][CacheWrittenByBatch /\ CacheKeptOtherwise]_vars

\* a batch with zero results has just ended on a session that holds a table
\* of two rows, displayed in another order than stored
C10_Witness ==
    /\ screen.notice = "warning"
    /\ session.output_df # None
    /\ screen.table = SortValues(session.output_df)
    /\ screen.table # session.output_df
    /\ screen.download = session.csv_data

=============================================================================
